---------------------------- MODULE Spec2Model ----------------------------
(***************************************************************************)
(* Superspeed Autoclicker (src/src/main.rs): the shared AppState, the      *)
(* settings file, and the three threads that work on them: the UI update   *)
(* (AppState::update), the autoclicker thread and the global listener      *)
(* callback.                                                               *)
(*                                                                         *)
(* Text is a sequence of one-character strings, so that splitting,         *)
(* trimming, case folding and parsing are computed as the code computes    *)
(* them.  An f64 is modelled by the integers (the values the model's       *)
(* settings files and slider positions use).  An Instant is a count of     *)
(* ticks of 100 ms.                                                        *)
(***************************************************************************)
EXTENDS Integers, Sequences, FiniteSets, TLC

VARIABLES
    file,              \* config.txt
    now,               \* the monotonic clock read by Instant::now()
    toggles,           \* history: the toggles of clicking carried out, modulo 2
    clicking,          \* AppState.clicking        (AtomicBool)
    hotkey,            \* AppState.hotkey          (Mutex<rdev::Key>)
    changing_hotkey,   \* AppState.changing_hotkey (AtomicBool)
    clicks,            \* AppState.clicks          (Mutex<Vec<Instant>>)
    fast_mode,         \* AppState.fast_mode       (AtomicBool)
    target_cps,        \* AppState.target_cps      (Mutex<f64>)
    left_click,        \* AppState.left_click
    middle_click,      \* AppState.middle_click
    right_click,       \* AppState.right_click
    selected_buttons,  \* AppState.selected_buttons (Mutex<Vec<MouseButton>>)
    play_sound,        \* AppState.play_sound      (AtomicBool)
    mutex,             \* the owner of each of the four Mutexes ("" when free)
    waited,            \* history: for a thread blocked in lock(), the critical
                       \* sections of other threads it has been blocked behind
    ui,                \* the UI thread inside AppState::update
    em,                \* the autoclicker thread inside its loop
    li                 \* the listener thread inside its callback

shared == <<clicking, hotkey, changing_hotkey, clicks, fast_mode, target_cps,
            left_click, middle_click, right_click, selected_buttons, play_sound>>
vars == <<file, now, toggles, clicking, hotkey, changing_hotkey, clicks, fast_mode,
          target_cps, left_click, middle_click, right_click, selected_buttons,
          play_sound, mutex, waited, ui, em, li>>

----------------------------------------------------------------------------
(* Bounds of the model. *)

\* Longest click list the listener is let to build.
MaxClicks == 3
\* Last clock tick.
MaxTime == 16
\* Longest settings file, in lines, that SpecLoad draws.
MaxLines == 2

----------------------------------------------------------------------------
(* Text. *)

UpperChars == <<"A","B","C","D","E","F","G","H","I","J","K","L","M",
                "N","O","P","Q","R","S","T","U","V","W","X","Y","Z">>
LowerChars == <<"a","b","c","d","e","f","g","h","i","j","k","l","m",
                "n","o","p","q","r","s","t","u","v","w","x","y","z">>
DigitChars == <<"0","1","2","3","4","5","6","7","8","9">>

IsIn(c, chars) == \E i \in 1..Len(chars) : chars[i] = c
IndexIn(c, chars) == CHOOSE i \in 1..Len(chars) : chars[i] = c

\* char::to_lowercase / to_ascii_uppercase on the ASCII letters.
LowerChar(c) == IF IsIn(c, UpperChars) THEN LowerChars[IndexIn(c, UpperChars)] ELSE c
UpperChar(c) == IF IsIn(c, LowerChars) THEN UpperChars[IndexIn(c, LowerChars)] ELSE c
to_lowercase(s) == [i \in 1..Len(s) |-> LowerChar(s[i])]

IsSpace(c) == c \in {" ", "\t"}

\* str::trim
RECURSIVE TrimStart(_)
TrimStart(s) == IF s # <<>> /\ IsSpace(Head(s)) THEN TrimStart(Tail(s)) ELSE s
RECURSIVE TrimEnd(_)
TrimEnd(s) ==
    IF s # <<>> /\ IsSpace(s[Len(s)]) THEN TrimEnd(SubSeq(s, 1, Len(s) - 1)) ELSE s
trim(s) == TrimEnd(TrimStart(s))

\* line.splitn(2, '='): the text before the first '=' and the text after it;
\* a single part when the line holds no '='.
splitn2(line) ==
    IF IsIn("=", line)
    THEN LET i == CHOOSE k \in 1..Len(line) :
                     line[k] = "=" /\ \A j \in 1..(k - 1) : line[j] # "="
         IN  <<SubSeq(line, 1, i - 1), SubSeq(line, i + 1, Len(line))>>
    ELSE <<line>>

\* value.parse::<bool>(): exactly "true" or "false".
ParseBool(s) ==
    IF s = <<"t","r","u","e">> THEN [ok |-> TRUE, val |-> TRUE]
    ELSE IF s = <<"f","a","l","s","e">> THEN [ok |-> TRUE, val |-> FALSE]
    ELSE [ok |-> FALSE, val |-> FALSE]

RECURSIVE DigitsValue(_)
DigitsValue(s) ==
    IF s = <<>> THEN 0
    ELSE 10 * DigitsValue(SubSeq(s, 1, Len(s) - 1)) + (IndexIn(s[Len(s)], DigitChars) - 1)

AllDigits(s) == s # <<>> /\ \A i \in 1..Len(s) : IsIn(s[i], DigitChars)

\* value.parse::<f64>() on the literals the model's files hold: an optional
\* sign and decimal digits.  Everything else the files hold is text that
\* f64::from_str rejects too.
ParseF64(s) ==
    IF AllDigits(s) THEN [ok |-> TRUE, val |-> DigitsValue(s)]
    ELSE IF s # <<>> /\ Head(s) = "-" /\ AllDigits(Tail(s))
         THEN [ok |-> TRUE, val |-> 0 - DigitsValue(Tail(s))]
    ELSE IF s # <<>> /\ Head(s) = "+" /\ AllDigits(Tail(s))
         THEN [ok |-> TRUE, val |-> DigitsValue(Tail(s))]
    ELSE [ok |-> FALSE, val |-> 0]

unwrap_or(r, d) == IF r.ok THEN r.val ELSE d

----------------------------------------------------------------------------
(* Config. *)

\* config.txt: whether it can be opened, and its lines.
NoFile == [exists |-> FALSE, lines |-> <<>>]
FileOf(lines) == [exists |-> TRUE, lines |-> lines]

DefaultTargetCps == 10

ConfigDefaults ==
    [hotkey |-> <<"I","n","s","e","r","t">>, fast_mode |-> TRUE,
     target_cps |-> DefaultTargetCps, left_click |-> TRUE,
     middle_click |-> FALSE, right_click |-> FALSE, play_sound |-> FALSE]

K_hotkey == <<"h","o","t","k","e","y">>
K_fast_mode == <<"f","a","s","t","_","m","o","d","e">>
K_target_cps == <<"t","a","r","g","e","t","_","c","p","s">>
K_left_click == <<"l","e","f","t","_","c","l","i","c","k">>
K_middle_click == <<"m","i","d","d","l","e","_","c","l","i","c","k">>
K_right_click == <<"r","i","g","h","t","_","c","l","i","c","k">>
K_play_sound == <<"p","l","a","y","_","s","o","u","n","d">>

\* A load whose right_click arm was copied from left_click's, default and all.
LoadLineCopied(cfg, line) ==
    LET parts == splitn2(line) IN
    IF Len(parts) # 2 THEN cfg
    ELSE LET key == trim(parts[1])
             value == trim(parts[2])
         IN  IF key = K_hotkey THEN [cfg EXCEPT !.hotkey = value]
             ELSE IF key = K_fast_mode
                  THEN [cfg EXCEPT !.fast_mode = unwrap_or(ParseBool(value), TRUE)]
             ELSE IF key = K_target_cps
                  THEN [cfg EXCEPT !.target_cps =
                                       unwrap_or(ParseF64(value), DefaultTargetCps)]
             ELSE IF key = K_left_click
                  THEN [cfg EXCEPT !.left_click = unwrap_or(ParseBool(value), TRUE)]
             ELSE IF key = K_middle_click
                  THEN [cfg EXCEPT !.middle_click = unwrap_or(ParseBool(value), FALSE)]
             ELSE IF key = K_right_click
                  THEN [cfg EXCEPT !.right_click = unwrap_or(ParseBool(value), TRUE)]
             ELSE IF key = K_play_sound
                  THEN [cfg EXCEPT !.play_sound = unwrap_or(ParseBool(value), FALSE)]
             ELSE cfg

\* One turn of the loop over the file's lines.
LoadLine(cfg, line) ==
    LET parts == splitn2(line) IN
    IF Len(parts) # 2 THEN cfg
    ELSE LET key == trim(parts[1])
             value == trim(parts[2])
         IN  IF key = K_hotkey THEN [cfg EXCEPT !.hotkey = value]
             ELSE IF key = K_fast_mode
                  THEN [cfg EXCEPT !.fast_mode = unwrap_or(ParseBool(value), TRUE)]
             ELSE IF key = K_target_cps
                  THEN [cfg EXCEPT !.target_cps =
                                       unwrap_or(ParseF64(value), DefaultTargetCps)]
             ELSE IF key = K_left_click
                  THEN [cfg EXCEPT !.left_click = unwrap_or(ParseBool(value), TRUE)]
             ELSE IF key = K_middle_click
                  THEN [cfg EXCEPT !.middle_click = unwrap_or(ParseBool(value), FALSE)]
             ELSE IF key = K_right_click
                  THEN [cfg EXCEPT !.right_click = unwrap_or(ParseBool(value), FALSE)]
             ELSE IF key = K_play_sound
                  THEN [cfg EXCEPT !.play_sound = unwrap_or(ParseBool(value), FALSE)]
             ELSE cfg

RECURSIVE LoadLines(_, _)
LoadLines(cfg, lines) ==
    IF lines = <<>> THEN cfg ELSE LoadLines(LoadLine(cfg, Head(lines)), Tail(lines))

\* Config::load: None for a file that cannot be opened.
ConfigLoad(f) ==
    IF ~f.exists THEN [ok |-> FALSE, val |-> ConfigDefaults]
    ELSE [ok |-> TRUE, val |-> LoadLines(ConfigDefaults, f.lines)]

----------------------------------------------------------------------------
(* Keys. *)

FKeyNames == <<<<"f","1">>, <<"f","2">>, <<"f","3">>, <<"f","4">>, <<"f","5">>,
               <<"f","6">>, <<"f","7">>, <<"f","8">>, <<"f","9">>,
               <<"f","1","0">>, <<"f","1","1">>, <<"f","1","2">>>>
FKeys == <<"F1","F2","F3","F4","F5","F6","F7","F8","F9","F10","F11","F12">>

string_to_rdev_key(s) ==
    LET s_lower == to_lowercase(s) IN
    IF s_lower = <<"i","n","s","e","r","t">> THEN [ok |-> TRUE, val |-> "Insert"]
    ELSE IF \E i \in 1..Len(FKeyNames) : FKeyNames[i] = s_lower
         THEN [ok |-> TRUE,
               val |-> FKeys[CHOOSE i \in 1..Len(FKeyNames) : FKeyNames[i] = s_lower]]
    ELSE IF Len(s) = 1 /\ IsIn(UpperChar(s[1]), UpperChars)
         THEN [ok |-> TRUE, val |-> "Key" \o UpperChar(s[1])]
    ELSE [ok |-> FALSE, val |-> "Insert"]

----------------------------------------------------------------------------
(* AppState. *)

Left == "Left"
Middle == "Middle"
Right == "Right"

\* The three pushes, in the order of the code.
Buttons(l, m, r) ==
    (IF l THEN <<Left>> ELSE <<>>) \o (IF m THEN <<Middle>> ELSE <<>>)
        \o (IF r THEN <<Right>> ELSE <<>>)

\* A from_config that starts the autoclicker when the file asks for speed.
from_config_running(config) ==
    [clicking |-> config.fast_mode,
     hotkey |-> unwrap_or(string_to_rdev_key(config.hotkey), "Insert"),
     changing_hotkey |-> FALSE,
     clicks |-> <<>>,
     fast_mode |-> config.fast_mode,
     target_cps |-> config.target_cps,
     left_click |-> config.left_click,
     middle_click |-> config.middle_click,
     right_click |-> config.right_click,
     selected_buttons |->
         Buttons(config.left_click, config.middle_click, config.right_click),
     play_sound |-> config.play_sound]

\* AppState::from_config, field by field.
from_config(config) ==
    [clicking |-> FALSE,
     hotkey |-> unwrap_or(string_to_rdev_key(config.hotkey), "Insert"),
     changing_hotkey |-> FALSE,
     clicks |-> <<>>,
     fast_mode |-> config.fast_mode,
     target_cps |-> config.target_cps,
     left_click |-> config.left_click,
     middle_click |-> config.middle_click,
     right_click |-> config.right_click,
     selected_buttons |->
         Buttons(config.left_click, config.middle_click, config.right_click),
     play_sound |-> config.play_sound]

\* AppState::default
AppStateDefault ==
    from_config([hotkey |-> <<"I","n","s","e","r","t">>, fast_mode |-> TRUE,
                 target_cps |-> 10, left_click |-> TRUE, middle_click |-> FALSE,
                 right_click |-> FALSE, play_sound |-> FALSE])

\* main, lines 375-379: the AppState the process starts with.
StartState(f) ==
    LET c == ConfigLoad(f) IN IF c.ok THEN from_config(c.val) ELSE AppStateDefault


----------------------------------------------------------------------------
(* Saving. *)

RECURSIVE NatDigits(_)
NatDigits(n) ==
    IF n < 10 THEN <<DigitChars[n + 1]>>
    ELSE NatDigits(n \div 10) \o <<DigitChars[(n % 10) + 1]>>

\* "{}" of an f64 holding an integer: no fraction is printed.
FormatF64(x) == IF x < 0 THEN <<"-">> \o NatDigits(0 - x) ELSE NatDigits(x)

\* A bool printed with a capital, which str::parse::<bool> rejects.
FormatBoolCapital(b) == IF b THEN <<"T","r","u","e">> ELSE <<"F","a","l","s","e">>

\* "{}" of a bool.
FormatBool(b) == IF b THEN <<"t","r","u","e">> ELSE <<"f","a","l","s","e">>

\* "{:?}" of the keys of the model that key_to_string has no arm for.
DebugName(key) ==
    CASE key = "Escape" -> <<"E","s","c","a","p","e">>
      [] key = "Space" -> <<"S","p","a","c","e">>
      [] OTHER -> <<"U","n","k","n","o","w","n">>

key_to_string(key) ==
    IF key = "Insert" THEN <<"I","n","s","e","r","t">>
    ELSE IF \E i \in 1..Len(FKeys) : FKeys[i] = key
         THEN LET i == CHOOSE j \in 1..Len(FKeys) : FKeys[j] = key
              IN  <<"F">> \o NatDigits(i)
    ELSE IF \E i \in 1..Len(UpperChars) : "Key" \o UpperChars[i] = key
         THEN <<UpperChars[CHOOSE i \in 1..Len(UpperChars) : "Key" \o UpperChars[i] = key]>>
    ELSE DebugName(key)

\* AppState::to_config
to_config ==
    [hotkey |-> key_to_string(hotkey), fast_mode |-> fast_mode,
     target_cps |-> target_cps, left_click |-> left_click,
     middle_click |-> middle_click, right_click |-> right_click,
     play_sound |-> play_sound]

\* Config::save: the seven lines written to config.txt.
ConfigSave(config) ==
    << K_hotkey \o <<"=">> \o config.hotkey,
       K_fast_mode \o <<"=">> \o FormatBool(config.fast_mode),
       K_target_cps \o <<"=">> \o FormatF64(config.target_cps),
       K_left_click \o <<"=">> \o FormatBool(config.left_click),
       K_middle_click \o <<"=">> \o FormatBool(config.middle_click),
       K_right_click \o <<"=">> \o FormatBool(config.right_click),
       K_play_sound \o <<"=">> \o FormatBool(config.play_sound) >>

----------------------------------------------------------------------------
(* Time. *)

\* Ticks in Duration::from_secs(1).
OneSecond == 10

\* A Duration in seconds, as a fraction.
Secs(n, d) == [num |-> n, den |-> d]
NoSleep == Secs(0, 1)

\* The clock moves on by one of the steps ds.
TickBy(ds) ==
    /\ \E d \in ds : now + d <= MaxTime /\ now' = now + d
    /\ UNCHANGED <<file, toggles, shared, ui, em, li>>

\* The clock moves on by any number of ticks up to a second.
Tick == TickBy(1..OneSecond)

----------------------------------------------------------------------------
(* The four Mutexes of the AppState. *)

Mutexes == {"hotkey", "clicks", "target_cps", "selected_buttons"}
Unlocked == [m \in Mutexes |-> ""]

Threads == {"ui", "em", "li"}
NotWaiting == [t \in Threads |-> 0]

\* The mutex update locks at each of its positions ("" for none): clicks at
\* lines 266 and 269, hotkey at 292 and 226, target_cps at 317, 319 and 230,
\* selected_buttons at 329.
UiLockAt(pc) ==
    CASE pc \in {"prune", "count"} -> "clicks"
      [] pc \in {"hotkey", "cfg_hotkey"} -> "hotkey"
      [] pc \in {"slider_read", "slider_write", "cfg_cps"} -> "target_cps"
      [] pc = "rebuild" -> "selected_buttons"
      [] OTHER -> ""

\* The autoclicker thread: selected_buttons at line 392, target_cps at 412.
EmLockAt(pc) ==
    CASE pc = "snapshot" -> "selected_buttons"
      [] pc = "read_cps" -> "target_cps"
      [] OTHER -> ""

\* The callback: hotkey at lines 437 and 442, clicks at 451.
LiLockAt(pc) ==
    CASE pc \in {"set_hotkey", "compare"} -> "hotkey"
      [] pc = "push" -> "clicks"
      [] OTHER -> ""

\* The mutex the thread's next step locks, or has locked for its section.
LockOf(t) ==
    IF t = "ui" THEN UiLockAt(ui.pc)
    ELSE IF t = "em" THEN EmLockAt(em.pc)
    ELSE LiLockAt(li.pc)

\* m.lock() returns: the mutex was free, also to a thread that called after
\* others that are still blocked (std's Mutex keeps no queue).  A thread
\* that holds the mutex itself would wait too (the Mutex is not reentrant).
\* The threads left blocked on m are now behind one more critical section.
Acquire(t, m) ==
    /\ mutex[m] = ""
    /\ mutex' = [mutex EXCEPT ![m] = t]
    /\ waited' = [u \in Threads |->
                     IF u = t THEN 0
                     ELSE IF waited[u] = 1 /\ LockOf(u) = m THEN 2
                     ELSE waited[u]]

\* m.lock() finds the mutex held by another thread: the caller blocks.
Blocks(t, m) ==
    /\ mutex[m] \notin {"", t}
    /\ waited[t] = 0
    /\ waited' = [waited EXCEPT ![t] = 1]
    /\ UNCHANGED mutex

\* The guard of m is dropped.
Release(t, m) ==
    /\ mutex[m] = t
    /\ mutex' = [mutex EXCEPT ![m] = ""]
    /\ UNCHANGED waited

\* A step in which every lock taken is dropped again: the mutexes are as
\* they were.
Atomic == UNCHANGED <<mutex, waited>>

----------------------------------------------------------------------------
(* The UI thread: one pass of AppState::update per frame. *)

\* The frame's locals: now (line 264), new_state (line 283), cps (line 269)
\* and the Config that to_config builds (line 354).
UiStart ==
    [pc |-> "now", now |-> 0, new_state |-> FALSE, cps |-> 0,
     config |-> ConfigDefaults]

\* let now = Instant::now();
UiNow ==
    /\ ui.pc = "now"
    /\ ui' = [ui EXCEPT !.pc = "prune", !.now = now]
    /\ UNCHANGED <<file, now, toggles, shared, em, li>>

\* A retain with its comparison turned round.
RetainOld(ts, t) == SelectSeq(ts, LAMBDA x : t - x >= OneSecond)

\* clicks.retain(..) under the lock.  duration_since saturates at zero for
\* an instant later than `now`, so such an entry is kept.
Retain(ts, t) == SelectSeq(ts, LAMBDA x : t - x <= OneSecond)

\* Lines 265-268: the prune against the instant read at line 264.
UiPrune ==
    /\ ui.pc = "prune"
    /\ clicks' = Retain(clicks, ui.now)
    /\ ui' = [ui EXCEPT !.pc = "count", !.now = 0]
    /\ UNCHANGED <<file, now, toggles, clicking, hotkey, changing_hotkey, fast_mode,
                   target_cps, left_click, middle_click, right_click,
                   selected_buttons, play_sound, em, li>>

UiCount ==
    /\ ui.pc = "count"
    /\ ui' = [ui EXCEPT !.pc = "toggle", !.cps = Len(clicks)]
    /\ UNCHANGED <<file, now, toggles, shared, em, li>>

\* "Toggle Autoclicker": the load of line 283 when the button was clicked.
UiToggle(clickeds) ==
    /\ ui.pc = "toggle"
    /\ \E clicked \in clickeds :
          ui' = IF clicked
                THEN [ui EXCEPT !.pc = "toggle_store", !.new_state = ~clicking]
                ELSE [ui EXCEPT !.pc = "hotkey"]
    /\ UNCHANGED <<file, now, toggles, shared, em, li>>

\* A button that starts the autoclicker instead of toggling it.
UiToggleStoreSet ==
    /\ ui.pc = "toggle_store"
    /\ clicking' = TRUE
    /\ ui' = [ui EXCEPT !.pc = "hotkey", !.new_state = FALSE]
    /\ toggles' = 1 - toggles
    /\ UNCHANGED <<file, now, hotkey, changing_hotkey, clicks, fast_mode,
                   target_cps, left_click, middle_click, right_click,
                   selected_buttons, play_sound, em, li>>

\* The store of line 284.
UiToggleStore ==
    /\ ui.pc = "toggle_store"
    /\ clicking' = ui.new_state
    /\ ui' = [ui EXCEPT !.pc = "hotkey", !.new_state = FALSE]
    /\ toggles' = 1 - toggles
    /\ UNCHANGED <<file, now, hotkey, changing_hotkey, clicks, fast_mode,
                   target_cps, left_click, middle_click, right_click,
                   selected_buttons, play_sound, em, li>>

\* "Change start/stop key".
UiHotkey(clickeds) ==
    /\ ui.pc = "hotkey"
    /\ \E clicked \in clickeds :
          changing_hotkey' = IF clicked THEN TRUE ELSE changing_hotkey
    /\ ui' = [ui EXCEPT !.pc = "rate"]
    /\ UNCHANGED <<file, now, toggles, clicking, hotkey, clicks, fast_mode, target_cps,
                   left_click, middle_click, right_click, selected_buttons,
                   play_sound, em, li>>

\* The two radio buttons: at most one is clicked in a frame.
UiRate(radios) ==
    /\ ui.pc = "rate"
    /\ \E radio \in radios :
          fast_mode' = IF radio = "Superspeed" THEN TRUE
                       ELSE IF radio = "Consistent Rate" THEN FALSE
                       ELSE fast_mode
    /\ ui' = [ui EXCEPT !.pc = "slider"]
    /\ UNCHANGED <<file, now, toggles, clicking, hotkey, changing_hotkey, clicks,
                   target_cps, left_click, middle_click, right_click,
                   selected_buttons, play_sound, em, li>>

SliderMin == 1
SliderMax == 1000
Clamp(x) == IF x < SliderMin THEN SliderMin ELSE IF x > SliderMax THEN SliderMax ELSE x

\* What egui's slider may leave in cps_target: the value dragged to, or, with
\* the slider untouched, the value it was given, as it is or clamped to the
\* range (the widget's code is not part of the repository).
SliderOutcomes(x, dragged) == dragged \cup {x, Clamp(x)}

\* Lines 316-320.  Only this thread writes fast_mode and target_cps, so the
\* two reads and the write are one step.
UiSlider(dragged) ==
    /\ ui.pc = "slider"
    /\ IF ~fast_mode
       THEN \E v \in SliderOutcomes(target_cps, dragged) : target_cps' = v
       ELSE target_cps' = target_cps
    /\ ui' = [ui EXCEPT !.pc = "buttons"]
    /\ UNCHANGED <<file, now, toggles, clicking, hotkey, changing_hotkey, clicks,
                   fast_mode, left_click, middle_click, right_click,
                   selected_buttons, play_sound, em, li>>

\* The three checkboxes (at most one is clicked in a frame), then the rebuild
\* of selected_buttons under its lock.
UiButtons(boxes) ==
    /\ ui.pc = "buttons"
    /\ \E box \in boxes :
          /\ left_click' = IF box = Left THEN ~left_click ELSE left_click
          /\ middle_click' = IF box = Middle THEN ~middle_click ELSE middle_click
          /\ right_click' = IF box = Right THEN ~right_click ELSE right_click
    /\ selected_buttons' = Buttons(left_click', middle_click', right_click')
    /\ ui' = [ui EXCEPT !.pc = "sound"]
    /\ UNCHANGED <<file, now, toggles, clicking, hotkey, changing_hotkey, clicks,
                   fast_mode, target_cps, play_sound, em, li>>

\* Lines 338-340.  Only this thread writes play_sound.
UiSound(clickeds) ==
    /\ ui.pc = "sound"
    /\ \E clicked \in clickeds :
          play_sound' = IF clicked THEN ~play_sound ELSE play_sound
    /\ ui' = [ui EXCEPT !.pc = "save"]
    /\ UNCHANGED <<file, now, toggles, clicking, hotkey, changing_hotkey, clicks,
                   fast_mode, target_cps, left_click, middle_click, right_click,
                   selected_buttons, em, li>>

\* "Save Config", then the end of the frame; request_repaint starts the next.
UiSave(clickeds) ==
    /\ ui.pc = "save"
    /\ \E clicked \in clickeds :
          file' = IF clicked THEN FileOf(ConfigSave(to_config)) ELSE file
    /\ ui' = UiStart
    /\ UNCHANGED <<now, toggles, shared, em, li>>


----------------------------------------------------------------------------
(* The autoclicker thread: one turn of its loop per iteration.  em.ptr,    *)
(* em.sounds and em.slept are what the iteration has sent to enigo, spawned *)
(* for rodio and slept so far.                                             *)

EmStart ==
    [pc |-> "check", active |-> FALSE, buttons |-> <<>>, ptr |-> <<>>,
     sounds |-> 0, slept |-> NoSleep, cps |-> 0]

Down(b) == <<"down", b>>
Up(b) == <<"up", b>>

\* A fallback that clicks twice.
FallbackDoubleClick == <<Down(Left), Up(Left), Down(Left), Up(Left)>>

\* enigo.mouse_click(MouseButton::Left): a press and a release.
FallbackClick == <<Down(Left), Up(Left)>>

\* A loop that presses the buttons of the snapshot together: every button
\* down, then every button up.
RECURSIVE Presses(_, _)
Presses(dir, btns) ==
    IF btns = <<>> THEN <<>> ELSE << <<dir, Head(btns)>> >> \o Presses(dir, Tail(btns))
PressAllReleaseAll(btns) == Presses("down", btns) \o Presses("up", btns)

\* The for loop over the snapshot: mouse_down then mouse_up of each button.
RECURSIVE PressRelease(_)
PressRelease(btns) ==
    IF btns = <<>> THEN <<>>
    ELSE <<Down(Head(btns)), Up(Head(btns))>> \o PressRelease(Tail(btns))

\* A loop that clicks whether clicking is set or not.
EmCheckSkipped ==
    /\ em.pc = "check"
    /\ em' = [em EXCEPT !.pc = "snapshot", !.active = TRUE]
    /\ UNCHANGED <<file, now, toggles, shared, ui, li>>

\* The load of clicking at the top of the loop.
EmCheck ==
    /\ em.pc = "check"
    /\ em' = IF clicking
             THEN [em EXCEPT !.pc = "snapshot", !.active = TRUE]
             ELSE [em EXCEPT !.pc = "idle"]
    /\ UNCHANGED <<file, now, toggles, shared, ui, li>>

IdleSleep == Secs(10, 1000)

\* thread::sleep(Duration::from_millis(10)), which ends the iteration.
EmIdle ==
    /\ em.pc = "idle"
    /\ em' = [em EXCEPT !.pc = "done", !.slept = IdleSleep]
    /\ UNCHANGED <<file, now, toggles, shared, ui, li>>

\* selected_buttons.lock().unwrap().clone()
EmSnapshot ==
    /\ em.pc = "snapshot"
    /\ em' = [em EXCEPT !.pc = "act", !.buttons = selected_buttons]
    /\ UNCHANGED <<file, now, toggles, shared, ui, li>>

\* Lines 393-399.  The empty snapshot's branch ends the iteration: the sound
\* and the pacing are inside the else branch.
EmAct ==
    /\ em.pc = "act"
    /\ em' = IF em.buttons = <<>>
             THEN [em EXCEPT !.pc = "done", !.ptr = FallbackClick]
             ELSE [em EXCEPT !.pc = "sound", !.ptr = PressRelease(em.buttons)]
    /\ UNCHANGED <<file, now, toggles, shared, ui, li>>

\* Lines 400-410: the playback thread is spawned and not joined.
EmSound ==
    /\ em.pc = "sound"
    /\ em' = IF play_sound
             THEN [em EXCEPT !.pc = "pace", !.sounds = @ + 1]
             ELSE [em EXCEPT !.pc = "pace"]
    /\ UNCHANGED <<file, now, toggles, shared, ui, li>>

\* Line 411; spin_loop() ends the iteration in fast mode.
EmPace ==
    /\ em.pc = "pace"
    /\ em' = IF ~fast_mode
             THEN [em EXCEPT !.pc = "read_cps"]
             ELSE [em EXCEPT !.pc = "done"]
    /\ UNCHANGED <<file, now, toggles, shared, ui, li>>

\* let cps = *target_cps.lock().unwrap();
EmReadCps ==
    /\ em.pc = "read_cps"
    /\ em' = [em EXCEPT !.pc = "sleep", !.cps = target_cps]
    /\ UNCHANGED <<file, now, toggles, shared, ui, li>>

\* Duration::from_secs_f64 panics on a negative or infinite number of
\* seconds: 1.0 / cps is one for every cps <= 0.
SleepPanics(cps) == cps <= 0

\* Lines 413-414.  A panic ends the thread.
EmSleep ==
    /\ em.pc = "sleep"
    /\ em' = IF SleepPanics(em.cps)
             THEN [em EXCEPT !.pc = "panicked"]
             ELSE [em EXCEPT !.pc = "done", !.slept = Secs(1, em.cps)]
    /\ UNCHANGED <<file, now, toggles, shared, ui, li>>

\* The closing brace of the loop: the iteration's locals are gone.
EmLoop ==
    /\ em.pc = "done"
    /\ em' = EmStart
    /\ UNCHANGED <<file, now, toggles, shared, ui, li>>

----------------------------------------------------------------------------
(* The listener thread: one call of the callback per event.  li.old is     *)
(* history: what clicking, hotkey and changing_hotkey held when the        *)
(* callback was entered with a key press.                                  *)

NoOld == [clicking |-> FALSE, hotkey |-> "Insert", changing_hotkey |-> FALSE]
Old == [clicking |-> clicking, hotkey |-> hotkey, changing_hotkey |-> changing_hotkey]

LiStart ==
    [pc |-> "idle", key |-> "Insert", new_state |-> FALSE, now |-> 0, old |-> NoOld]

\* EventType::KeyPress(key): the load of changing_hotkey.
LiKeyPress(keys) ==
    /\ li.pc = "idle"
    /\ \E key \in keys :
          li' = IF changing_hotkey
                THEN [li EXCEPT !.pc = "set_hotkey", !.key = key, !.old = Old]
                ELSE [li EXCEPT !.pc = "compare", !.key = key, !.old = Old]
    /\ UNCHANGED <<file, now, toggles, shared, ui, em>>

\* A rebind that never stores the pressed key.
LiSetHotkeyLost ==
    /\ li.pc = "set_hotkey"
    /\ li' = [li EXCEPT !.pc = "clear"]
    /\ UNCHANGED <<file, now, toggles, shared, ui, em>>

\* *hk = key, under the lock.
LiSetHotkey ==
    /\ li.pc = "set_hotkey"
    /\ hotkey' = li.key
    /\ li' = [li EXCEPT !.pc = "clear"]
    /\ UNCHANGED <<file, now, toggles, clicking, changing_hotkey, clicks, fast_mode,
                   target_cps, left_click, middle_click, right_click,
                   selected_buttons, play_sound, ui, em>>

\* A rebind that falls through to the hotkey comparison.
LiClearFallsThrough ==
    /\ li.pc = "clear"
    /\ changing_hotkey' = FALSE
    /\ li' = [li EXCEPT !.pc = "compare"]
    /\ UNCHANGED <<file, now, toggles, clicking, hotkey, clicks, fast_mode,
                   target_cps, left_click, middle_click, right_click,
                   selected_buttons, play_sound, ui, em>>

\* A rebind that leaves changing_hotkey set.
LiClearKeeps ==
    /\ li.pc = "clear"
    /\ li' = LiStart
    /\ UNCHANGED <<file, now, toggles, shared, ui, em>>

\* changing_hotkey.store(false)
LiClear ==
    /\ li.pc = "clear"
    /\ changing_hotkey' = FALSE
    /\ li' = LiStart
    /\ UNCHANGED <<file, now, toggles, clicking, hotkey, clicks, fast_mode, target_cps,
                   left_click, middle_click, right_click, selected_buttons,
                   play_sound, ui, em>>

\* Lines 442-443: the pressed key against the hotkey read under the lock.
LiCompare ==
    /\ li.pc = "compare"
    /\ li' = IF li.key = hotkey THEN [li EXCEPT !.pc = "toggle_load"] ELSE LiStart
    /\ UNCHANGED <<file, now, toggles, shared, ui, em>>

\* Line 444.
LiToggleLoad ==
    /\ li.pc = "toggle_load"
    /\ li' = [li EXCEPT !.pc = "toggle_store", !.new_state = ~clicking]
    /\ UNCHANGED <<file, now, toggles, shared, ui, em>>

\* Line 445.
LiToggleStore ==
    /\ li.pc = "toggle_store"
    /\ clicking' = li.new_state
    /\ li' = LiStart
    /\ toggles' = 1 - toggles
    /\ UNCHANGED <<file, now, hotkey, changing_hotkey, clicks, fast_mode,
                   target_cps, left_click, middle_click, right_click,
                   selected_buttons, play_sound, ui, em>>

\* EventType::ButtonPress(Button::Left): Instant::now().
LiButtonPress ==
    /\ li.pc = "idle"
    /\ Len(clicks) < MaxClicks
    /\ li' = [li EXCEPT !.pc = "push", !.now = now]
    /\ UNCHANGED <<file, now, toggles, shared, ui, em>>

\* A push that replaces the list.
LiPushAlone ==
    /\ li.pc = "push"
    /\ clicks' = <<li.now>>
    /\ li' = LiStart
    /\ UNCHANGED <<file, now, toggles, clicking, hotkey, changing_hotkey, fast_mode,
                   target_cps, left_click, middle_click, right_click,
                   selected_buttons, play_sound, ui, em>>

\* clicks.push(now), under the lock.
LiPush ==
    /\ li.pc = "push"
    /\ clicks' = Append(clicks, li.now)
    /\ li' = LiStart
    /\ UNCHANGED <<file, now, toggles, clicking, hotkey, changing_hotkey, fast_mode,
                   target_cps, left_click, middle_click, right_click,
                   selected_buttons, play_sound, ui, em>>

\* Every other event (a key release, another button, a move): the `_` arm.
LiOther ==
    /\ li.pc = "idle"
    /\ UNCHANGED vars


----------------------------------------------------------------------------
(* The program. *)

Setting(key, value) == key \o <<"=">> \o value

\* A settings file that selects the consistent rate with a target of 0 and
\* no mouse button.
ZeroRateFile ==
    FileOf(<< Setting(K_fast_mode, <<"f","a","l","s","e">>),
              Setting(K_target_cps, <<"0">>),
              Setting(K_left_click, <<"f","a","l","s","e">>) >>)

\* The settings files the running program is started from.
InitFiles == {NoFile, ZeroRateFile}

\* The keys the keyboard of the model has.
Keys == {"Insert", "KeyA"}

\* Where the slider is dragged to.
SliderPositions == {SliderMin, SliderMax}

\* main: the state the three threads start in.
Started(f) ==
    LET s == StartState(f) IN
    /\ file = f
    /\ now = 0
    /\ toggles = 0
    /\ clicking = s.clicking
    /\ hotkey = s.hotkey
    /\ changing_hotkey = s.changing_hotkey
    /\ clicks = s.clicks
    /\ fast_mode = s.fast_mode
    /\ target_cps = s.target_cps
    /\ left_click = s.left_click
    /\ middle_click = s.middle_click
    /\ right_click = s.right_click
    /\ selected_buttons = s.selected_buttons
    /\ play_sound = s.play_sound
    /\ mutex = Unlocked
    /\ waited = NotWaiting
    /\ ui = UiStart
    /\ em = EmStart
    /\ li = LiStart

Init == \E f \in InitFiles : Started(f)

\* A thread between two handlers: at the top of update, at the top of the
\* loop (or dead), outside the callback.
UiQuiet == ui.pc = "now"
EmQuiet == em.pc \in {"check", "panicked"}
LiQuiet == li.pc = "idle"

\* A step of a frame, of an iteration, of a callback, while the other two
\* threads are between handlers.
UiTurn == EmQuiet /\ LiQuiet
EmTurn == UiQuiet /\ LiQuiet
LiTurn == UiQuiet /\ EmQuiet

\* The handlers run one at a time: a frame, an iteration or a callback is
\* not interleaved with the steps of another.  Every widget is in reach; the
\* file is not saved.
NextSeq ==
    \/ UiTurn /\ UiNow /\ Atomic
    \/ UiTurn /\ UiPrune /\ Atomic
    \/ UiTurn /\ UiCount /\ Atomic
    \/ UiTurn /\ UiToggle(BOOLEAN) /\ Atomic
    \/ UiTurn /\ UiToggleStore /\ Atomic
    \/ UiTurn /\ UiHotkey(BOOLEAN) /\ Atomic
    \/ UiTurn /\ UiRate({"", "Superspeed", "Consistent Rate"}) /\ Atomic
    \/ UiTurn /\ UiSlider(SliderPositions) /\ Atomic
    \/ UiTurn /\ UiButtons({"", Left, Middle, Right}) /\ Atomic
    \/ UiTurn /\ UiSound(BOOLEAN) /\ Atomic
    \/ UiTurn /\ UiSave({FALSE}) /\ Atomic
    \/ EmTurn /\ EmCheck /\ Atomic
    \/ EmTurn /\ EmIdle /\ Atomic
    \/ EmTurn /\ EmSnapshot /\ Atomic
    \/ EmTurn /\ EmAct /\ Atomic
    \/ EmTurn /\ EmSound /\ Atomic
    \/ EmTurn /\ EmPace /\ Atomic
    \/ EmTurn /\ EmReadCps /\ Atomic
    \/ EmTurn /\ EmSleep /\ Atomic
    \/ EmTurn /\ EmLoop /\ Atomic
    \/ LiTurn /\ LiKeyPress(Keys) /\ Atomic
    \/ LiTurn /\ LiSetHotkey /\ Atomic
    \/ LiTurn /\ LiClear /\ Atomic
    \/ LiTurn /\ LiCompare /\ Atomic
    \/ LiTurn /\ LiToggleLoad /\ Atomic
    \/ LiTurn /\ LiToggleStore /\ Atomic
    \/ LiTurn /\ LiButtonPress /\ Atomic
    \/ LiTurn /\ LiPush /\ Atomic
    \/ LiTurn /\ LiOther /\ Atomic

SpecSeq == Init /\ [][NextSeq]_vars

----------------------------------------------------------------------------
(* The rate display: the clock, the listener's left-button presses and the *)
(* frames of a UI no widget of which is touched, freely interleaved.       *)

InitRate == Started(NoFile)

NextRate ==
    \/ Tick /\ Atomic
    \/ LiButtonPress /\ Atomic
    \/ LiPush /\ Atomic
    \/ UiNow /\ Atomic
    \/ UiPrune /\ Atomic
    \/ UiCount /\ Atomic
    \/ UiToggle({FALSE}) /\ Atomic
    \/ UiHotkey({FALSE}) /\ Atomic
    \/ UiRate({""}) /\ Atomic
    \/ UiSlider({}) /\ Atomic
    \/ UiButtons({""}) /\ Atomic
    \/ UiSound({FALSE}) /\ Atomic
    \/ UiSave({FALSE}) /\ Atomic

SpecRate == InitRate /\ [][NextRate]_vars

----------------------------------------------------------------------------
(* The click list: the listener's left-button presses against the prune of *)
(* the frames, freely interleaved, with the toggle button and the rebind   *)
(* button in reach so that clicking and changing_hotkey take both values.  *)
(* The clock moves in steps of half a second and of a second.              *)

NextClicks ==
    \/ TickBy({5, OneSecond}) /\ Atomic
    \/ LiButtonPress /\ Atomic
    \/ LiPush /\ Atomic
    \/ UiNow /\ Atomic
    \/ UiPrune /\ Atomic
    \/ UiCount /\ Atomic
    \/ UiToggle(BOOLEAN) /\ Atomic
    \/ UiToggleStore /\ Atomic
    \/ UiHotkey(BOOLEAN) /\ Atomic
    \/ UiRate({""}) /\ Atomic
    \/ UiSlider({}) /\ Atomic
    \/ UiButtons({""}) /\ Atomic
    \/ UiSound({FALSE}) /\ Atomic
    \/ UiSave({FALSE}) /\ Atomic

SpecClicks == InitRate /\ [][NextClicks]_vars


----------------------------------------------------------------------------
(* The three threads lock by lock.  A step that works on a Mutex's data is  *)
(* split in two: the lock() call, which waits for the mutex, and the body   *)
(* of the critical section, which ends with the drop of the guard.  The     *)
(* steps of update that hold more than one critical section (the slider,   *)
(* the rebuild of selected_buttons, to_config) are split further.          *)

\* A lock() call: it returns with the guard, or blocks.
Locks(t, m) ==
    /\ Acquire(t, m) \/ Blocks(t, m)
    /\ UNCHANGED <<file, now, toggles, shared, ui, em, li>>

UiLock == UiLockAt(ui.pc) # "" /\ Locks("ui", UiLockAt(ui.pc))
EmLock == EmLockAt(em.pc) # "" /\ Locks("em", EmLockAt(em.pc))
LiLock == LiLockAt(li.pc) # "" /\ Locks("li", LiLockAt(li.pc))

\* Lines 266-268 and line 269.
UiPruneUnlock == UiPrune /\ Release("ui", "clicks")
UiCountUnlock == UiCount /\ Release("ui", "clicks")

\* Lines 291-298: the name of the hotkey is read under the lock; the guard is
\* dropped at line 294 and the button follows, here in the same step.
UiHotkeyUnlock(clickeds) == UiHotkey(clickeds) /\ Release("ui", "hotkey")

\* Line 316: in fast mode the slider is not shown and target_cps not locked.
UiSliderShown ==
    /\ ui.pc = "slider"
    /\ ui' = [ui EXCEPT !.pc = IF fast_mode THEN "buttons" ELSE "slider_read"]
    /\ UNCHANGED <<file, now, toggles, shared, em, li>>
    /\ Atomic

\* Line 317: cps_target is read under the lock.  Only this thread writes
\* target_cps, so the value is still the one read when line 319 writes.
UiSliderRead ==
    /\ ui.pc = "slider_read"
    /\ mutex["target_cps"] = "ui"
    /\ ui' = [ui EXCEPT !.pc = "slider_widget"]
    /\ UNCHANGED <<file, now, toggles, shared, em, li>>
    /\ Release("ui", "target_cps")

\* Line 318: the slider works on the local, no lock held.
UiSliderWidget ==
    /\ ui.pc = "slider_widget"
    /\ ui' = [ui EXCEPT !.pc = "slider_write"]
    /\ UNCHANGED <<file, now, toggles, shared, em, li>>
    /\ Atomic

\* Line 319: the local is written back under the lock.
UiSliderWrite(dragged) ==
    /\ ui.pc = "slider_write"
    /\ \E v \in SliderOutcomes(target_cps, dragged) : target_cps' = v
    /\ ui' = [ui EXCEPT !.pc = "buttons"]
    /\ UNCHANGED <<file, now, toggles, clicking, hotkey, changing_hotkey, clicks,
                   fast_mode, left_click, middle_click, right_click,
                   selected_buttons, play_sound, em, li>>
    /\ Release("ui", "target_cps")

\* Lines 325-327: the three checkboxes (at most one is clicked in a frame).
UiBoxes(boxes) ==
    /\ ui.pc = "buttons"
    /\ \E box \in boxes :
          /\ left_click' = IF box = Left THEN ~left_click ELSE left_click
          /\ middle_click' = IF box = Middle THEN ~middle_click ELSE middle_click
          /\ right_click' = IF box = Right THEN ~right_click ELSE right_click
    /\ ui' = [ui EXCEPT !.pc = "rebuild"]
    /\ UNCHANGED <<file, now, toggles, clicking, hotkey, changing_hotkey, clicks,
                   fast_mode, target_cps, selected_buttons, play_sound, em, li>>
    /\ Atomic

\* A clear in a block of its own: the guard is dropped before the pushes.
UiClearDrops ==
    /\ ui.pc = "rebuild"
    /\ selected_buttons' = <<>>
    /\ ui' = [ui EXCEPT !.pc = "push_left"]
    /\ UNCHANGED <<file, now, toggles, clicking, hotkey, changing_hotkey, clicks,
                   fast_mode, target_cps, left_click, middle_click, right_click,
                   play_sound, em, li>>
    /\ Release("ui", "selected_buttons")

\* Line 330: buttons.clear(), the guard of line 329 alive.
UiClear ==
    /\ ui.pc = "rebuild"
    /\ mutex["selected_buttons"] = "ui"
    /\ selected_buttons' = <<>>
    /\ ui' = [ui EXCEPT !.pc = "push_left"]
    /\ UNCHANGED <<file, now, toggles, clicking, hotkey, changing_hotkey, clicks,
                   fast_mode, target_cps, left_click, middle_click, right_click,
                   play_sound, em, li>>
    /\ Atomic

\* Lines 331-333: one push per checked box; the guard is dropped at line 334,
\* after the last.
UiPush(at, checked, button, next) ==
    /\ ui.pc = at
    /\ selected_buttons' =
           IF checked THEN Append(selected_buttons, button) ELSE selected_buttons
    /\ ui' = [ui EXCEPT !.pc = next]
    /\ UNCHANGED <<file, now, toggles, clicking, hotkey, changing_hotkey, clicks,
                   fast_mode, target_cps, left_click, middle_click, right_click,
                   play_sound, em, li>>

UiPushLeft == UiPush("push_left", left_click, Left, "push_middle") /\ Atomic
UiPushMiddle == UiPush("push_middle", middle_click, Middle, "push_right") /\ Atomic
UiPushRight ==
    UiPush("push_right", right_click, Right, "sound")
        /\ Release("ui", "selected_buttons")

\* Line 353: without a click the frame ends here.
UiSaveButton(clickeds) ==
    /\ ui.pc = "save"
    /\ \E clicked \in clickeds :
          ui' = IF clicked THEN [ui EXCEPT !.pc = "cfg_hotkey"] ELSE UiStart
    /\ UNCHANGED <<file, now, toggles, shared, em, li>>
    /\ Atomic

\* to_config, lines 225-228: the name of the hotkey, read under its lock.
UiCfgHotkey ==
    /\ ui.pc = "cfg_hotkey"
    /\ ui' = [ui EXCEPT !.pc = "cfg_cps", !.config.hotkey = key_to_string(hotkey)]
    /\ UNCHANGED <<file, now, toggles, shared, em, li>>
    /\ Release("ui", "hotkey")

\* to_config, lines 229-243: target_cps under its lock; the other fields are
\* atomics and fields only this thread writes.
UiCfgCps ==
    /\ ui.pc = "cfg_cps"
    /\ ui' = [ui EXCEPT !.pc = "cfg_write",
                        !.config = [to_config EXCEPT !.hotkey = ui.config.hotkey]]
    /\ UNCHANGED <<file, now, toggles, shared, em, li>>
    /\ Release("ui", "target_cps")

\* Config::save of the Config built, then the end of the frame.
UiCfgWrite ==
    /\ ui.pc = "cfg_write"
    /\ file' = FileOf(ConfigSave(ui.config))
    /\ ui' = UiStart
    /\ UNCHANGED <<now, toggles, shared, em, li>>
    /\ Atomic

\* A snapshot that borrows the list: the guard lives on through the loop.
EmSnapshotKeeps == EmSnapshot /\ mutex["selected_buttons"] = "em" /\ Atomic

\* Line 392 and line 412: the guard is a temporary of the statement.
EmSnapshotUnlock == EmSnapshot /\ Release("em", "selected_buttons")
EmReadCpsUnlock == EmReadCps /\ Release("em", "target_cps")

\* Lines 437-439, line 442 and lines 451-453.
LiSetHotkeyUnlock == LiSetHotkey /\ Release("li", "hotkey")
LiCompareUnlock == LiCompare /\ Release("li", "hotkey")
LiPushUnlock == LiPush /\ Release("li", "clicks")

\* A settings file that selects the consistent rate, so that the slider is
\* shown and the autoclicker thread paces itself.
PacedFile == FileOf(<< Setting(K_fast_mode, <<"f","a","l","s","e">>) >>)

InitLocks == Started(PacedFile)

\* The three threads freely interleaved.  The hotkey is pressed, the rebind
\* button and the save button are clicked; the other widgets are not touched.
NextLocks ==
    \/ UiLock
    \/ UiNow /\ Atomic
    \/ UiPruneUnlock
    \/ UiCountUnlock
    \/ UiToggle({FALSE}) /\ Atomic
    \/ UiHotkeyUnlock(BOOLEAN)
    \/ UiRate({""}) /\ Atomic
    \/ UiSliderShown
    \/ UiSliderRead
    \/ UiSliderWidget
    \/ UiSliderWrite({})
    \/ UiBoxes({""})
    \/ UiClear
    \/ UiPushLeft
    \/ UiPushMiddle
    \/ UiPushRight
    \/ UiSound({FALSE}) /\ Atomic
    \/ UiSaveButton(BOOLEAN)
    \/ UiCfgHotkey
    \/ UiCfgCps
    \/ UiCfgWrite
    \/ EmLock
    \/ EmCheck /\ Atomic
    \/ EmIdle /\ Atomic
    \/ EmSnapshotUnlock
    \/ EmAct /\ Atomic
    \/ EmSound /\ Atomic
    \/ EmPace /\ Atomic
    \/ EmReadCpsUnlock
    \/ EmSleep /\ Atomic
    \/ EmLoop /\ Atomic
    \/ LiLock
    \/ LiKeyPress({"Insert"}) /\ Atomic
    \/ LiSetHotkeyUnlock
    \/ LiClear /\ Atomic
    \/ LiCompareUnlock
    \/ LiToggleLoad /\ Atomic
    \/ LiToggleStore /\ Atomic
    \/ LiButtonPress /\ Atomic
    \/ LiPushUnlock

SpecLocks == InitLocks /\ [][NextLocks]_vars

----------------------------------------------------------------------------
(* Process start: main loads config.txt and builds the AppState. *)

T_true == <<"t","r","u","e">>
T_false == <<"f","a","l","s","e">>

\* The lines the settings files of SpecLoad are made of: for every key a
\* value that parses and values that do not, spaces around the parts, a key
\* in the wrong case, an unknown key, a line without '='.
SettingLines ==
    { Setting(K_hotkey, <<"F","5">>),
      Setting(K_hotkey, <<"a">>),
      Setting(K_hotkey, <<"i","n","s","e","r","t">>),
      Setting(K_hotkey, <<"E","s","c","a","p","e">>),
      Setting(K_hotkey, <<>>),
      Setting(K_fast_mode, T_false),
      Setting(K_fast_mode, <<"T","r","u","e">>),
      K_fast_mode \o <<" ","="," ">> \o T_false \o <<" ">>,
      Setting(K_target_cps, <<"2","5","0">>),
      Setting(K_target_cps, <<"f","a","s","t">>),
      Setting(K_target_cps, <<"-","5">>),
      Setting(K_target_cps, <<"0">>),
      Setting(K_left_click, T_false),
      Setting(K_left_click, <<"n","o">>),
      Setting(K_left_click, T_false \o <<"=">> \o T_true),
      Setting(K_middle_click, T_true),
      Setting(K_middle_click, <<"1">>),
      Setting(K_right_click, T_true),
      Setting(K_right_click, <<"y","e","s">>),
      Setting(K_play_sound, T_true),
      Setting(K_play_sound, <<"o","n">>),
      Setting(<<"H","o","t","k","e","y">>, <<"F","5">>),
      Setting(<<"v","o","l","u","m","e">>, <<"3">>),
      K_fast_mode }

\* A file that sets every field, as Config::save writes it.
FullFile ==
    FileOf(ConfigSave([hotkey |-> <<"F","1","2">>, fast_mode |-> FALSE,
                       target_cps |-> 20, left_click |-> FALSE,
                       middle_click |-> TRUE, right_click |-> TRUE,
                       play_sound |-> TRUE]))

RECURSIVE SeqsUpTo(_, _)
SeqsUpTo(S, n) ==
    IF n = 0 THEN {<<>>}
    ELSE LET shorter == SeqsUpTo(S, n - 1)
         IN  shorter \cup {Append(q, x) : q \in shorter, x \in S}

LoadFiles ==
    {NoFile, FullFile} \cup {FileOf(lines) : lines \in SeqsUpTo(SettingLines, MaxLines)}

\* Before main has run: no AppState yet, no thread spawned.
NotStarted ==
    /\ now = 0
    /\ toggles = 0
    /\ clicking = FALSE
    /\ hotkey = ""
    /\ changing_hotkey = FALSE
    /\ clicks = <<>>
    /\ fast_mode = FALSE
    /\ target_cps = 0
    /\ left_click = FALSE
    /\ middle_click = FALSE
    /\ right_click = FALSE
    /\ selected_buttons = <<>>
    /\ play_sound = FALSE
    /\ mutex = Unlocked
    /\ waited = NotWaiting
    /\ ui = [UiStart EXCEPT !.pc = "main"]
    /\ em = [EmStart EXCEPT !.pc = "unspawned"]
    /\ li = [LiStart EXCEPT !.pc = "unspawned"]

InitLoad == file \in LoadFiles /\ NotStarted

\* main, lines 374-463: the AppState is built and the threads are spawned.
Main ==
    /\ ui.pc = "main"
    /\ LET s == StartState(file) IN
       /\ clicking' = s.clicking
       /\ hotkey' = s.hotkey
       /\ changing_hotkey' = s.changing_hotkey
       /\ clicks' = s.clicks
       /\ fast_mode' = s.fast_mode
       /\ target_cps' = s.target_cps
       /\ left_click' = s.left_click
       /\ middle_click' = s.middle_click
       /\ right_click' = s.right_click
       /\ selected_buttons' = s.selected_buttons
       /\ play_sound' = s.play_sound
    /\ ui' = UiStart
    /\ em' = EmStart
    /\ li' = LiStart
    /\ UNCHANGED <<file, now, toggles>>

NextLoad == Main /\ Atomic

SpecLoad == InitLoad /\ [][NextLoad]_vars


----------------------------------------------------------------------------
(* Saving: the frames of a UI with the rebind button, the radio buttons,   *)
(* the slider, the checkboxes and "Save Config" in reach, and the key      *)
(* presses of the listener, a frame or a callback at a time.               *)

\* Keys the listener delivers: with an arm in key_to_string (Insert, KeyA,
\* F12) and without one (Escape).
PressedKeys == Keys \cup {"F12", "Escape"}

NextSave ==
    \/ LiQuiet /\ UiNow /\ Atomic
    \/ LiQuiet /\ UiPrune /\ Atomic
    \/ LiQuiet /\ UiCount /\ Atomic
    \/ LiQuiet /\ UiToggle({FALSE}) /\ Atomic
    \/ LiQuiet /\ UiHotkey(BOOLEAN) /\ Atomic
    \/ LiQuiet /\ UiRate({"", "Superspeed", "Consistent Rate"}) /\ Atomic
    \/ LiQuiet /\ UiSlider({SliderMax}) /\ Atomic
    \/ LiQuiet /\ UiButtons({"", Middle}) /\ Atomic
    \/ LiQuiet /\ UiSound(BOOLEAN) /\ Atomic
    \/ LiQuiet /\ UiSave(BOOLEAN) /\ Atomic
    \/ UiQuiet /\ LiKeyPress(PressedKeys) /\ Atomic
    \/ UiQuiet /\ LiSetHotkey /\ Atomic
    \/ UiQuiet /\ LiClear /\ Atomic
    \/ UiQuiet /\ LiCompare /\ Atomic
    \/ UiQuiet /\ LiToggleLoad /\ Atomic
    \/ UiQuiet /\ LiToggleStore /\ Atomic

SpecSave == InitRate /\ [][NextSave]_vars

----------------------------------------------------------------------------
(* Load, then save, run after run: main builds the AppState from           *)
(* config.txt, the frames touch no widget but "Save Config", and the       *)
(* window is closed between two frames.  No key and no mouse button is     *)
(* pressed and the autoclicker, which writes no setting, is left out.      *)

\* eframe::run_native returns and main with it: the process and its
\* AppState are gone, config.txt stays.
Exit ==
    /\ ui.pc = "now"
    /\ clicking' = FALSE
    /\ hotkey' = ""
    /\ changing_hotkey' = FALSE
    /\ clicks' = <<>>
    /\ fast_mode' = FALSE
    /\ target_cps' = 0
    /\ left_click' = FALSE
    /\ middle_click' = FALSE
    /\ right_click' = FALSE
    /\ selected_buttons' = <<>>
    /\ play_sound' = FALSE
    /\ ui' = [UiStart EXCEPT !.pc = "main"]
    /\ em' = [EmStart EXCEPT !.pc = "unspawned"]
    /\ li' = [LiStart EXCEPT !.pc = "unspawned"]
    /\ UNCHANGED <<file, now, toggles>>

NextTrip ==
    \/ Main /\ Atomic
    \/ UiLock
    \/ UiNow /\ Atomic
    \/ UiPruneUnlock
    \/ UiCountUnlock
    \/ UiToggle({FALSE}) /\ Atomic
    \/ UiHotkeyUnlock({FALSE})
    \/ UiRate({""}) /\ Atomic
    \/ UiSliderShown
    \/ UiSliderRead
    \/ UiSliderWidget
    \/ UiSliderWrite({}) /\ UNCHANGED target_cps
    \/ UiBoxes({""})
    \/ UiClear
    \/ UiPushLeft
    \/ UiPushMiddle
    \/ UiPushRight
    \/ UiSound({FALSE}) /\ Atomic
    \/ UiSaveButton(BOOLEAN)
    \/ UiCfgHotkey
    \/ UiCfgCps
    \/ UiCfgWrite
    \/ Exit /\ Atomic

SpecTrip == InitLoad /\ [][NextTrip]_vars

----------------------------------------------------------------------------
(* The button list: the frames of a UI with the toggle button and the      *)
(* three checkboxes in reach against the iterations of the autoclicker,    *)
(* lock by lock, freely interleaved.  The program runs in fast mode (no    *)
(* config.txt, the radio buttons untouched), so the slider is not shown    *)
(* and the iteration does not pace.                                        *)

NextButtons ==
    \/ UiLock
    \/ UiNow /\ Atomic
    \/ UiPruneUnlock
    \/ UiCountUnlock
    \/ UiToggle(BOOLEAN) /\ Atomic
    \/ UiToggleStore /\ Atomic
    \/ UiHotkeyUnlock({FALSE})
    \/ UiRate({""}) /\ Atomic
    \/ UiSliderShown
    \/ UiBoxes({"", Left, Middle, Right})
    \/ UiClear
    \/ UiPushLeft
    \/ UiPushMiddle
    \/ UiPushRight
    \/ UiSound({FALSE}) /\ Atomic
    \/ UiSaveButton({FALSE})
    \/ EmLock
    \/ EmCheck /\ Atomic
    \/ EmIdle /\ Atomic
    \/ EmSnapshotUnlock
    \/ EmAct /\ Atomic
    \/ EmSound /\ Atomic
    \/ EmPace /\ Atomic
    \/ EmLoop /\ Atomic

SpecButtons == InitRate /\ [][NextButtons]_vars

----------------------------------------------------------------------------
(* The two toggles: the frames of a UI with the toggle button in reach     *)
(* against the key presses of the listener, freely interleaved.  The       *)
(* hotkey is Insert and is not rebound.                                    *)

NextRace ==
    \/ UiNow /\ Atomic
    \/ UiPrune /\ Atomic
    \/ UiCount /\ Atomic
    \/ UiToggle(BOOLEAN) /\ Atomic
    \/ UiToggleStore /\ Atomic
    \/ UiHotkey({FALSE}) /\ Atomic
    \/ UiRate({""}) /\ Atomic
    \/ UiSlider({}) /\ Atomic
    \/ UiButtons({""}) /\ Atomic
    \/ UiSound({FALSE}) /\ Atomic
    \/ UiSave({FALSE}) /\ Atomic
    \/ LiKeyPress(Keys) /\ Atomic
    \/ LiCompare /\ Atomic
    \/ LiToggleLoad /\ Atomic
    \/ LiToggleStore /\ Atomic

SpecRace == InitRate /\ [][NextRace]_vars

----------------------------------------------------------------------------
(* Stopping: the iterations of the autoclicker against the frames of a UI  *)
(* with the toggle button, the radio buttons, the checkboxes and the sound *)
(* box in reach, freely interleaved.                                       *)

NextStop ==
    \/ UiNow /\ Atomic
    \/ UiPrune /\ Atomic
    \/ UiCount /\ Atomic
    \/ UiToggle(BOOLEAN) /\ Atomic
    \/ UiToggleStore /\ Atomic
    \/ UiHotkey({FALSE}) /\ Atomic
    \/ UiRate({"", "Superspeed", "Consistent Rate"}) /\ Atomic
    \/ UiSlider({}) /\ Atomic
    \/ UiButtons({"", Left, Middle, Right}) /\ Atomic
    \/ UiSound(BOOLEAN) /\ Atomic
    \/ UiSave({FALSE}) /\ Atomic
    \/ EmCheck /\ Atomic
    \/ EmIdle /\ Atomic
    \/ EmSnapshot /\ Atomic
    \/ EmAct /\ Atomic
    \/ EmSound /\ Atomic
    \/ EmPace /\ Atomic
    \/ EmReadCps /\ Atomic
    \/ EmSleep /\ Atomic
    \/ EmLoop /\ Atomic

SpecStop == InitRate /\ [][NextStop]_vars

----------------------------------------------------------------------------
(* Running on: the iterations of the autoclicker, scheduled fairly,        *)
(* against the frames of a UI with the toggle button in reach; the slider  *)
(* is shown in Consistent Rate mode and not dragged.                       *)

\* A settings file that selects the consistent rate with a target of 0 and
\* leaves the Left button selected.
StallFile ==
    FileOf(<< Setting(K_fast_mode, <<"f","a","l","s","e">>),
              Setting(K_target_cps, <<"0">>) >>)

InitLive == \E f \in InitFiles \cup {StallFile} : Started(f)

\* A step of the autoclicker thread.
EmStep ==
    /\ \/ EmCheck
       \/ EmIdle
       \/ EmSnapshot
       \/ EmAct
       \/ EmSound
       \/ EmPace
       \/ EmReadCps
       \/ EmSleep
       \/ EmLoop
    /\ Atomic

\* A step of a frame; request_repaint (line 362) starts the next frame.
UiStep ==
    /\ \/ UiNow
       \/ UiPrune
       \/ UiCount
       \/ UiToggle(BOOLEAN)
       \/ UiToggleStore
       \/ UiHotkey({FALSE})
       \/ UiRate({""})
       \/ UiSlider({})
       \/ UiButtons({""})
       \/ UiSound({FALSE})
       \/ UiSave({FALSE})
    /\ Atomic

NextLive == UiStep \/ EmStep

\* The operating system gives the UI thread and the autoclicker thread
\* their turns.
SpecLive == InitLive /\ [][NextLive]_vars /\ WF_vars(UiStep) /\ WF_vars(EmStep)

----------------------------------------------------------------------------
(* From the start: main builds the AppState from config.txt and spawns the *)
(* threads; the frames have the toggle button, the rebind button and "Save *)
(* Config" in reach, the listener gets key presses, the autoclicker runs,  *)
(* all freely interleaved; the window is closed and the program started    *)
(* again on the config.txt it left.                                        *)

\* A config.txt that names the two flags no Config field stands for.
FlagsFile ==
    FileOf(<< Setting(<<"c","l","i","c","k","i","n","g">>, T_true),
              Setting(<<"c","h","a","n","g","i","n","g","_","h","o","t","k","e","y">>,
                      T_true) >>)

StartFiles == {NoFile, FullFile, StallFile, FlagsFile}

InitStart == file \in StartFiles /\ NotStarted

NextStart ==
    \/ Main /\ Atomic
    \/ Exit /\ Atomic
    \/ UiNow /\ Atomic
    \/ UiPrune /\ Atomic
    \/ UiCount /\ Atomic
    \/ UiToggle(BOOLEAN) /\ Atomic
    \/ UiToggleStore /\ Atomic
    \/ UiHotkey(BOOLEAN) /\ Atomic
    \/ UiRate({""}) /\ Atomic
    \/ UiSlider({}) /\ Atomic
    \/ UiButtons({""}) /\ Atomic
    \/ UiSound({FALSE}) /\ Atomic
    \/ UiSave(BOOLEAN) /\ Atomic
    \/ EmStep
    \/ LiKeyPress(Keys) /\ Atomic
    \/ LiSetHotkey /\ Atomic
    \/ LiClear /\ Atomic
    \/ LiCompare /\ Atomic
    \/ LiToggleLoad /\ Atomic
    \/ LiToggleStore /\ Atomic

SpecStart == InitStart /\ [][NextStart]_vars

----------------------------------------------------------------------------
(* Properties.  Under SpecSeq an iteration, a frame and a callback run     *)
(* without a step of another thread in between, so the shared fields an    *)
(* iteration reads hold one value from its first step to its last.         *)

\* An Active iteration has reached the closing brace of the loop.
ActiveIterationDone == em.pc = "done" /\ em.active

\* C1: an Active iteration run in the consistent-rate mode (with a target
\* rate above 0) has slept 1/target_cps seconds when it ends, whatever its
\* snapshot of selected_buttons was.
C1_FixedIterationSleeps ==
    (ActiveIterationDone /\ ~fast_mode /\ target_cps > 0)
        => em.slept = Secs(1, target_cps)

\* C2: an Active iteration run with play_sound set has spawned one playback
\* when it ends, whatever its snapshot of selected_buttons was.
C2_SoundEveryIteration ==
    (ActiveIterationDone /\ play_sound) => em.sounds = 1

\* C3: an Active iteration whose snapshot of selected_buttons is empty sends
\* one press and one release of the left button to the pointer, and nothing
\* else.
C3_FallbackIsOneLeftClick ==
    (ActiveIterationDone /\ em.buttons = <<>>)
        => em.ptr = << <<"down", "Left">>, <<"up", "Left">> >>

C3_Witness ==
    /\ ActiveIterationDone
    /\ em.buttons = <<>>
    /\ selected_buttons = <<>>
    /\ Len(em.ptr) = 2

\* The callback returns from the handling of a key press.
KeyPressHandled == li.pc \in {"clear", "compare", "toggle_store"} /\ li'.pc = "idle"

\* C4: a key press of K handled while changing_hotkey was set leaves K as the
\* hotkey and changing_hotkey clear, and running as it was; one handled while
\* changing_hotkey was clear flips running when K is the hotkey and leaves
\* running alone when K is any other key, the hotkey before a rebind included.
C4_RebindThenToggle ==
    [][KeyPressHandled =>
          IF li.old.changing_hotkey
          THEN hotkey' = li.key /\ ~changing_hotkey' /\ clicking' = li.old.clicking
          ELSE /\ hotkey' = li.old.hotkey
               /\ clicking' = IF li.key = li.old.hotkey
                              THEN ~li.old.clicking
                              ELSE li.old.clicking]_vars

\* A key other than the old hotkey has been made the hotkey: the rebind is
\* about to return.
C4_Witness ==
    /\ li.pc = "clear"
    /\ li.old.changing_hotkey
    /\ li.key # li.old.hotkey
    /\ hotkey = li.key

\* A toggle of either source is carried out: the store of line 284 or 445.
ToggleStored == toggles' # toggles

\* C5: every toggle flips running and writes nothing else, so that running is
\* back at its first value (false) after every second toggle, whichever of
\* the hotkey and the button each toggle came from.
C5_TwoTogglesRestore ==
    /\ [](clicking <=> toggles = 1)
    /\ [][ToggleStored =>
             /\ clicking' = ~clicking
             /\ UNCHANGED <<hotkey, changing_hotkey, fast_mode, target_cps,
                            left_click, middle_click, right_click,
                            selected_buttons, play_sound, clicks>>]_vars

\* The second of two toggles: the first left running set, the button's
\* handler has read it and is about to store its negation.
C5_Witness ==
    /\ clicking
    /\ toggles = 1
    /\ ui.pc = "toggle_store"
    /\ ~ui.new_state

\* The prune and the count of a frame; ui.now is the instant the frame read
\* before the prune.
Pruned == ui.pc = "prune" /\ ui'.pc = "count"
Counted == ui.pc = "count" /\ ui'.pc = "toggle"

\* C6 as stated: with clicks recorded at 0.0 s, 0.5 s and 1.5 s, the prune at
\* 1.6 s leaves the entries of 0.5 s and 1.5 s.
C6_AsStated ==
    [][(Pruned /\ ui.now = 16 /\ clicks = <<0, 5, 15>>) => clicks' = <<5, 15>>]_vars

\* C6, amended: the prune leaves the entries that are at most 1.0 s old, in
\* their order, and the count is their number: with clicks recorded at 0.0 s,
\* 0.5 s and 1.5 s, the read at 1.6 s yields the entry of 1.5 s alone (that
\* of 0.5 s is 1.1 s old), and the read at 1.5 s yields those of 0.5 s and
\* 1.5 s.
C6_PruneKeepsOneSecond ==
    /\ [][Pruned =>
             /\ \A i \in 1..Len(clicks') : ui.now - clicks'[i] <= 10
             /\ Len(clicks') = Cardinality({i \in 1..Len(clicks) : ui.now - clicks[i] <= 10})
             /\ \A i \in 1..Len(clicks') : \E j \in i..Len(clicks) : clicks[j] = clicks'[i]
             /\ (ui.now = 16 /\ clicks = <<0, 5, 15>>) => clicks' = <<15>>
             /\ (ui.now = 15 /\ clicks = <<0, 5, 15>>) => clicks' = <<5, 15>>]_vars
    /\ [][Counted => ui'.cps = Len(clicks)]_vars

\* The frame of 1.6 s has pruned and counted.
C6_Witness ==
    /\ ui.pc = "toggle"
    /\ now = 16
    /\ clicks = <<15>>
    /\ ui.cps = 1

\* C7: the stored target rate is above 0 in every state, and the autoclicker
\* thread never panics on the pacing sleep.
C7_TargetRatePositive == target_cps > 0 /\ em.pc # "panicked"

\* C8: running is written by two steps only, the store of the toggle button
\* and the store of the callback that was entered, with changing_hotkey
\* clear, by a press of the hotkey; the autoclicker thread writes no field of
\* the AppState, and a rebind returns without a comparison.
C8_OnlyTogglesWriteRunning ==
    [][/\ (clicking' # clicking) =>
             \/ ui.pc = "toggle_store" /\ ui'.pc = "hotkey"
             \/ /\ li.pc = "toggle_store" /\ li'.pc = "idle"
                /\ ~li.old.changing_hotkey
                /\ li.key = li.old.hotkey
       /\ (em' # em) => UNCHANGED <<toggles, shared>>
       /\ (li' # li /\ li.pc # "toggle_store") => clicking' = clicking
       /\ (li.pc = "clear" /\ li' # li) => li'.pc = "idle"]_vars

\* running is set and the autoclicker thread has run an iteration on it.
C8_Witness == clicking /\ ActiveIterationDone /\ toggles = 1

\* C9: the key press handled first after the request is captured, whatever
\* the key; it leaves running alone, also when it is the current hotkey, and
\* clears changing_hotkey; no other step clears it, only the button sets it,
\* the hotkey changes in no other step, and a key press handled with
\* changing_hotkey clear is compared and captures nothing.
C9_OneKeyPerRebind ==
    /\ [](li.pc \in {"set_hotkey", "clear"} => li.old.changing_hotkey)
    /\ [](li.pc \in {"compare", "toggle_load", "toggle_store"}
             => ~li.old.changing_hotkey /\ ~changing_hotkey)
    /\ [][/\ (li.pc = "clear" /\ li'.pc = "idle")
                => hotkey' = li.key /\ ~changing_hotkey' /\ clicking' = li.old.clicking
          /\ (changing_hotkey /\ ~changing_hotkey') => (li.pc = "clear" /\ li'.pc = "idle")
          /\ (~changing_hotkey /\ changing_hotkey') => (ui.pc = "hotkey" /\ ui'.pc = "rate")
          /\ (hotkey' # hotkey)
                => (li.pc = "set_hotkey" /\ li.old.changing_hotkey /\ hotkey' = li.key)]_vars

\* The key captured is the hotkey of before: it is stored and running, which
\* a press of the hotkey would have flipped, is as it was.
C9_Witness ==
    /\ li.pc = "clear"
    /\ li.key = li.old.hotkey
    /\ hotkey = li.key
    /\ clicking
    /\ li.old.clicking

----------------------------------------------------------------------------
(* Loading, against the documented format. *)

\* The lines of the file that set `key`, and the text the last of them gives.
LinesSetting(f, key) ==
    {i \in 1..Len(f.lines) :
        IsIn("=", f.lines[i]) /\ trim(splitn2(f.lines[i])[1]) = key}
TextOf(f, key) ==
    LET i == CHOOSE k \in LinesSetting(f, key) : \A j \in LinesSetting(f, key) : j <= k
    IN  trim(splitn2(f.lines[i])[2])
Sets(f, key) == f.exists /\ LinesSetting(f, key) # {}

\* A boolean field: true or false when the file says so, else the default.
BoolField(f, key, default) ==
    IF Sets(f, key) /\ TextOf(f, key) = <<"t","r","u","e">> THEN TRUE
    ELSE IF Sets(f, key) /\ TextOf(f, key) = <<"f","a","l","s","e">> THEN FALSE
    ELSE default

\* The rate: the number when the file gives a number, else 10.0.
RateField(f) ==
    IF Sets(f, K_target_cps) /\ ParseF64(TextOf(f, K_target_cps)).ok
    THEN ParseF64(TextOf(f, K_target_cps)).val
    ELSE 10

\* The names of the keys, as key_to_string's arms give them.
KeyNames ==
    {<< <<"I","n","s","e","r","t">>, "Insert" >>}
        \cup {<< <<"F">> \o NatDigits(i), FKeys[i] >> : i \in 1..12}
        \cup {<< <<UpperChars[i]>>, "Key" \o UpperChars[i] >> : i \in 1..26}

\* The hotkey: the key the file names, in any case of letters, else Insert.
HotkeyField(f) ==
    LET named == {n \in KeyNames :
                     Sets(f, K_hotkey)
                         /\ to_lowercase(n[1]) = to_lowercase(TextOf(f, K_hotkey))}
    IN  IF named = {} THEN "Insert" ELSE (CHOOSE n \in named : TRUE)[2]

Built == ui.pc # "main"

\* C10: once main has built the AppState, every field holds the value the
\* file gives it where the file gives a well-formed one, and its documented
\* default (Insert, true, 10.0, true, false, false, false) where the file is
\* missing, does not set the field or sets it to malformed text; keys the
\* format does not know change nothing.
C10_LoadFieldByField ==
    Built =>
        /\ hotkey = HotkeyField(file)
        /\ fast_mode = BoolField(file, K_fast_mode, TRUE)
        /\ target_cps = RateField(file)
        /\ left_click = BoolField(file, K_left_click, TRUE)
        /\ middle_click = BoolField(file, K_middle_click, FALSE)
        /\ right_click = BoolField(file, K_right_click, FALSE)
        /\ play_sound = BoolField(file, K_play_sound, FALSE)
        /\ selected_buttons = Buttons(left_click, middle_click, right_click)

\* A file with a malformed right_click and a well-formed target_cps is loaded.
C10_Witness ==
    /\ Built
    /\ file = FileOf(<< Setting(K_right_click, <<"y","e","s">>),
                        Setting(K_target_cps, <<"2","5","0">>) >>)
    /\ ~right_click
    /\ target_cps = 250

----------------------------------------------------------------------------
(* The click list under interleaving. *)

ButtonPressed == li.pc = "idle" /\ li'.pc = "push"
Pushed == li.pc = "push" /\ li'.pc = "idle"

\* How often the instant t is in the list ts.
Occurrences(ts, t) == Cardinality({i \in 1..Len(ts) : ts[i] = t})

\* C19: the callback of a left-button press reads the clock and appends that
\* instant to clicks, once, with clicking and changing_hotkey at any value,
\* and writes nothing else; clicks changes in no step but an append and a
\* prune; a prune keeps every entry that is at most 1 s older than the
\* frame's instant, as often as it was there, and leaves none that is older.
C19_AppendAndPrune ==
    /\ [][ButtonPressed => (li'.now = now /\ UNCHANGED <<file, shared>>)]_vars
    /\ [][Pushed =>
             /\ clicks' = Append(clicks, li.now)
             /\ UNCHANGED <<file, clicking, hotkey, changing_hotkey, fast_mode,
                            target_cps, left_click, middle_click, right_click,
                            selected_buttons, play_sound>>]_vars
    /\ [][clicks' # clicks => (Pushed \/ Pruned)]_vars
    /\ [][Pruned =>
             \A t \in 0..MaxTime :
                 Occurrences(clicks', t) =
                     IF ui.now - t > 10 THEN 0 ELSE Occurrences(clicks, t)]_vars

\* With the autoclicker running and a rebind requested, a press has read the
\* clock and its append is still to come, while the prune of a frame is
\* about to drop an entry older than a second.
C19_Witness ==
    /\ clicking
    /\ changing_hotkey
    /\ li.pc = "push"
    /\ ui.pc = "prune"
    /\ li.now >= ui.now
    /\ clicks # <<>>
    /\ ui.now - clicks[1] > 10

----------------------------------------------------------------------------
(* The locks. *)

Holding(t) == {m \in Mutexes : mutex[m] = t}

\* The thread's next step is a lock() call.
Pending(t) == LockOf(t) # "" /\ mutex[LockOf(t)] # t

\* The steps a thread takes with a guard alive.
UiSection ==
    \/ UiPruneUnlock \/ UiCountUnlock \/ UiHotkeyUnlock(BOOLEAN)
    \/ UiSliderRead \/ UiSliderWrite({}) \/ UiClear \/ UiPushLeft
    \/ UiPushMiddle \/ UiPushRight \/ UiCfgHotkey \/ UiCfgCps
EmSection == EmSnapshotUnlock \/ EmReadCpsUnlock
LiSection == LiSetHotkeyUnlock \/ LiCompareUnlock \/ LiPushUnlock

\* C11, amended: no thread calls lock() with a guard alive and none holds
\* two mutexes; the autoclicker thread sleeps, clicks and spawns the sound
\* with no guard alive; a thread that holds a mutex can take its next step
\* whatever the others do, so no thread waits for a thread that waits and no
\* interleaving deadlocks; a blocked lock() thus waits only for critical
\* sections that hold no lock(), sleep or pointer action.  How many of them
\* it waits for is not bounded by one: a mutex that comes free goes to any
\* caller.
C11_LocksNeverNested ==
    /\ \A t \in Threads : Pending(t) => Holding(t) = {}
    /\ \A t \in Threads : Cardinality(Holding(t)) <= 1
    /\ em.pc \in {"idle", "act", "sleep", "sound", "done"} => Holding("em") = {}
    /\ Holding("ui") # {} => ENABLED UiSection
    /\ Holding("em") # {} => ENABLED EmSection
    /\ Holding("li") # {} => ENABLED LiSection
    /\ \A t \in Threads : waited[t] > 0 => (Pending(t) /\ Holding(t) = {})

\* C11 as stated: the above, and no lock() call stays blocked behind more
\* than one critical section of other threads.
C11_AsStated ==
    C11_LocksNeverNested /\ \A t \in Threads : waited[t] <= 1

\* The frame is blocked at line 266 behind the listener's push while the
\* autoclicker thread holds selected_buttons.
C11_Witness ==
    /\ waited["ui"] = 1
    /\ ui.pc = "prune"
    /\ mutex["clicks"] = "li"
    /\ mutex["selected_buttons"] = "em"

----------------------------------------------------------------------------
(* Save, then load at the next start. *)

\* config.txt holds what "Save Config" writes for the settings as they are.
SavedAsIs == file = FileOf(ConfigSave(to_config))

\* C12: when config.txt holds a save of the current settings, the AppState
\* the next process start builds from it has the same hotkey, fast_mode,
\* target_cps, left_click, middle_click, right_click, selected_buttons and
\* play_sound, whatever key the hotkey was rebound to.
C12_SaveLoadRestores ==
    SavedAsIs =>
        LET s == StartState(file) IN
        /\ s.hotkey = hotkey
        /\ s.fast_mode = fast_mode
        /\ s.target_cps = target_cps
        /\ s.left_click = left_click
        /\ s.middle_click = middle_click
        /\ s.right_click = right_click
        /\ s.selected_buttons = selected_buttons
        /\ s.play_sound = play_sound

----------------------------------------------------------------------------
(* Load, then save, twice. *)

\* Config::save has just written config.txt.
Written == ui.pc = "cfg_write" /\ ui'.pc = "now"

\* What a run that loads f and saves with no setting changed leaves in
\* config.txt.
Resaved(f) ==
    LET s == StartState(f) IN
    FileOf(<< Setting(K_hotkey, key_to_string(s.hotkey)),
              Setting(K_fast_mode, FormatBool(s.fast_mode)),
              Setting(K_target_cps, FormatF64(s.target_cps)),
              Setting(K_left_click, FormatBool(s.left_click)),
              Setting(K_middle_click, FormatBool(s.middle_click)),
              Setting(K_right_click, FormatBool(s.right_click)),
              Setting(K_play_sound, FormatBool(s.play_sound)) >>)

\* C13: a run that loads config.txt and saves it with no setting changed
\* writes a file that the next such run writes again, character for
\* character: the save of a run writes Resaved of the file the run loaded,
\* what it writes is a fixed point of Resaved, and a save onto a file that
\* an earlier load-and-save produced leaves the file as it is.
C13_LoadSaveIdempotent ==
    /\ [][Written => file' = Resaved(file)]_vars
    /\ [][Written => Resaved(file') = file']_vars
    /\ [][(Written /\ file = Resaved(file)) => file' = file]_vars

\* The second save is about to write: config.txt is already the save of an
\* earlier run (its hotkey line is what key_to_string prints, here for a
\* file that named the hotkey "a" and a target of 250), and the Config to
\* write is built.
C13_Witness ==
    /\ ui.pc = "cfg_write"
    /\ file = Resaved(file)
    /\ hotkey = "KeyA"
    /\ file.lines[1] = Setting(K_hotkey, <<"A">>)
    /\ target_cps = 250


----------------------------------------------------------------------------
(* The snapshot of selected_buttons. *)

\* The UI thread is between buttons.clear() and the drop of the guard.
Rebuilding == ui.pc \in {"push_left", "push_middle", "push_right"}

\* The autoclicker thread clones the list.
SnapshotTaken == em.pc = "snapshot" /\ em'.pc = "act"

\* The lists the checkboxes select when at most one of them differs from
\* what it is now: at line 329 the list still is the one the update before
\* left, and the frame has clicked one box at most.
OneBoxBack ==
    { Buttons(left_click, middle_click, right_click),
      Buttons(~left_click, middle_click, right_click),
      Buttons(left_click, ~middle_click, right_click),
      Buttons(left_click, middle_click, ~right_click) }

\* C14: selected_buttons is written only between line 329 and line 334, by
\* the UI thread with the guard alive; when an update ends and until the
\* next one reaches its checkboxes the list is the one the checkboxes
\* select; the checkboxes leave the list alone; and the autoclicker thread
\* clones the list only while no rebuild is under way, so that its snapshot
\* is the list as a completed update (or from_config) left it: the selection
\* of the checkboxes, or with a rebuild pending at line 329 the selection
\* before this frame's click.  What the iteration then sends to the pointer
\* is the fallback click for an empty snapshot and the snapshot's buttons
\* otherwise.
C14_SnapshotNeverPartial ==
    /\ [][selected_buttons' # selected_buttons =>
              /\ ui.pc \in {"rebuild", "push_left", "push_middle", "push_right"}
              /\ mutex["selected_buttons"] = "ui"
              /\ UNCHANGED em]_vars
    /\ [](ui.pc \notin {"rebuild", "push_left", "push_middle", "push_right"} =>
              selected_buttons = Buttons(left_click, middle_click, right_click))
    /\ []((ui.pc = "rebuild" /\ mutex["selected_buttons"] # "ui") =>
              selected_buttons \in OneBoxBack)
    /\ [][(ui.pc = "buttons" /\ ui'.pc = "rebuild") =>
              /\ selected_buttons' = selected_buttons
              /\ selected_buttons = Buttons(left_click, middle_click, right_click)]_vars
    /\ [][SnapshotTaken =>
              /\ ~Rebuilding
              /\ mutex["selected_buttons"] = "em"
              /\ em'.buttons = selected_buttons
              /\ IF ui.pc = "rebuild"
                 THEN em'.buttons \in OneBoxBack
                 ELSE em'.buttons = Buttons(left_click, middle_click, right_click)]_vars
    /\ [](em.ptr # <<>> =>
              em.ptr = IF em.buttons = <<>> THEN <<Down(Left), Up(Left)>>
                       ELSE PressRelease(em.buttons))

\* The autoclicker thread is blocked at line 392 while the rebuild has
\* cleared the list and not yet pushed Middle, the only box checked: a clone
\* taken now would be empty and the iteration would click Left.
C14_Witness ==
    /\ em.pc = "snapshot" /\ waited["em"] = 1
    /\ ui.pc = "push_middle" /\ mutex["selected_buttons"] = "ui"
    /\ ~left_click /\ middle_click /\ ~right_click
    /\ selected_buttons = <<>>

----------------------------------------------------------------------------
(* Toggles of the two threads. *)

\* C15: with no toggle begun and not yet stored, clicking is its initial
\* value (false) after an even number of toggles carried out by the button
\* and the hotkey together, and the negation of it after an odd number.
C15_NoToggleLost ==
    (ui.pc # "toggle_store" /\ li.pc # "toggle_store") =>
        (clicking <=> toggles = 1)

----------------------------------------------------------------------------
(* Stopping the autoclicker. *)

\* The iteration sends something to enigo, spawns a playback thread.
PointerAction == em'.ptr # em.ptr /\ em'.ptr # <<>>
SoundSpawned == em'.sounds > em.sounds

\* C16: an iteration is active only from a load of clicking that returned
\* true; an iteration that is not active sends nothing to the pointer and
\* spawns no sound, and all it does is the idle sleep; a load of clicking
\* that returns false never makes the iteration active.  So from the moment
\* clicking is false for good, once the iteration under way has come back to
\* the top of the loop nothing is sent to the pointer any more.
C16_StoppedStaysQuiet ==
    /\ [](~em.active => (em.ptr = <<>> /\ em.sounds = 0))
    /\ [][(PointerAction \/ SoundSpawned) => (em.active /\ em'.active)]_vars
    /\ [][(em'.active /\ ~em.active) => (em.pc = "check" /\ clicking)]_vars
    /\ [][(em.pc = "check" /\ em'.pc # "check" /\ ~clicking) =>
              (~em'.active /\ em'.pc = "idle")]_vars
    /\ []((em.pc = "check" /\ [](~clicking)) => [](em.ptr = <<>>))

\* clicking has been toggled off while the iteration that read it as true
\* has cloned the buttons and is about to click.
C16_Witness ==
    ~clicking /\ toggles = 0 /\ em.active /\ em.pc = "act" /\ em.buttons = <<Left>>

----------------------------------------------------------------------------
(* Running on. *)

\* C17: with the autoclicker thread scheduled fairly, in a run in which
\* clicking is true from some moment on the thread sends press and release
\* to the pointer again and again, whatever config.txt the program was
\* started from.
C17_ActiveClicksForever ==
    (<>[]clicking) => []<>(em.pc = "act" /\ em.active)

----------------------------------------------------------------------------
(* Press and release. *)

\* The buttons that a sequence of pointer actions leaves pressed.
RECURSIVE HeldAfter(_)
HeldAfter(ptr) ==
    IF ptr = <<>> THEN {}
    ELSE LET before == HeldAfter(SubSeq(ptr, 1, Len(ptr) - 1))
             last == ptr[Len(ptr)]
         IN  IF last[1] = "down" THEN before \cup {last[2]} ELSE before \ {last[2]}

\* Left before Middle before Right.
Rank(b) == IF b = Left THEN 1 ELSE IF b = Middle THEN 2 ELSE 3

\* C18: the snapshot an active iteration takes is the selected buttons, each
\* once, Left before Middle before Right; what the iteration has sent to the
\* pointer for a non-empty snapshot is, button by button in that order, one
\* press and next to it the release of the same button, and nothing else;
\* and where the thread loads clicking, sleeps or spawns the sound no button
\* it pressed is down, whether or not clicking was cleared meanwhile.
C18_PressThenRelease ==
    /\ [][SnapshotTaken =>
              em'.buttons = Buttons(left_click, middle_click, right_click)]_vars
    /\ [](\A i, j \in 1..Len(em.buttons) :
              i < j => Rank(em.buttons[i]) < Rank(em.buttons[j]))
    /\ []((em.ptr # <<>> /\ em.buttons # <<>>) =>
              /\ Len(em.ptr) = 2 * Len(em.buttons)
              /\ \A i \in 1..Len(em.buttons) :
                    /\ em.ptr[2 * i - 1] = <<"down", em.buttons[i]>>
                    /\ em.ptr[2 * i] = <<"up", em.buttons[i]>>)
    /\ [](em.pc \in {"check", "idle", "sound", "pace", "read_cps", "sleep",
                     "done", "panicked"} => HeldAfter(em.ptr) = {})

\* clicking has been cleared during an iteration that has pressed and
\* released Left, Middle and Right and is about to spawn the sound.
C18_Witness ==
    /\ ~clicking /\ toggles = 0 /\ em.active /\ em.pc = "sound" /\ play_sound
    /\ em.ptr = << <<"down", Left>>, <<"up", Left>>, <<"down", Middle>>,
                   <<"up", Middle>>, <<"down", Right>>, <<"up", Right>> >>

----------------------------------------------------------------------------
(* The start state. *)

\* main has built the AppState.
Started20 == ui.pc = "main" /\ ui'.pc = "now"

\* The keys Config::save writes.
SavedKeys ==
    {K_hotkey, K_fast_mode, K_target_cps, K_left_click, K_middle_click,
     K_right_click, K_play_sound}

\* C20: the AppState main builds has clicking and changing_hotkey false and
\* no click recorded, whatever config.txt holds (also one written while the
\* autoclicker ran or a rebind was pending, also one that names the two
\* flags); a write of config.txt leaves seven lines, one per Config field;
\* clicking becomes true only by the store of a toggle (button or hotkey);
\* the autoclicker sends to the pointer only in an iteration that loaded
\* clicking as true.  So in a run in which clicking is never set nothing is
\* ever sent to the pointer.
C20_StartsIdle ==
    /\ [][Started20 => (~clicking' /\ ~changing_hotkey' /\ clicks' = <<>>)]_vars
    /\ [][file' # file =>
              /\ ui.pc = "save"
              /\ Len(file'.lines) = 7
              /\ {splitn2(file'.lines[i])[1] : i \in 1..7} = SavedKeys]_vars
    /\ [][(clicking' /\ ~clicking) =>
              (ui.pc = "toggle_store" \/ li.pc = "toggle_store")]_vars
    /\ [][(em'.ptr # em.ptr /\ em'.ptr # <<>>) => em.active]_vars
    /\ [][(em'.active /\ ~em.active) => (em.pc = "check" /\ clicking)]_vars
    /\ []((ui.pc = "main" /\ [](~clicking)) => [](em.ptr = <<>>))

\* The program has been started on a config.txt that holds clicking=true
\* and changing_hotkey=true, and the autoclicker thread has loaded clicking
\* and found it false.
C20_Witness ==
    /\ file = FlagsFile
    /\ ~clicking /\ ~changing_hotkey /\ clicks = <<>>
    /\ ui.pc = "now" /\ em.pc = "idle" /\ ~em.active /\ li.pc = "idle"

=============================================================================
